---- MODULE Spec2Model ----
(***************************************************************************)
(* Topological localization filter of fcr2017_ws:                          *)
(*   src/src/topological_localization/src/localization/cic_probabilities.py *)
(*                                                                         *)
(* Arithmetic is exact.  A numpy array of reals is a record                *)
(*   [num |-> <<n1, ..., nk>>, den |-> <<d1, ..., dm>>]                      *)
(* whose i-th entry is  num[i] / (d1 * ... * dm).  The denominator is kept *)
(* as a list of factors because the product of two denominators can leave  *)
(* TLC's 32-bit integer range.           An entry 0/0 is numpy's nan    *)
(* (what  array / 0.0  stores for a zero entry).                           *)
(***************************************************************************)
EXTENDS Integers, Sequences, FiniteSets, TLC

VARIABLES position_belief, last

vars == <<position_belief, last>>

(***************************************************************************)
(* Program constants                                                       *)
(***************************************************************************)
map_len == 18

scale == 5

hallway_features == 2

inner_features == 3

outer_features == 3

(***************************************************************************)
(* Bounds of the model                                                     *)
(***************************************************************************)
\* Longest run of one reading from the uniform belief that is followed.
MaxRepeat == 4

\* Largest sum of numerators an update may produce (TLC's integers
\* are 32 bits wide); update_belief is not taken beyond it.
MaxSum == 2000000000

\* The same limit where every operation and every input is explored.
MaxSumApi == 200000

(***************************************************************************)
(* Integer and sequence helpers                                            *)
(***************************************************************************)
RECURSIVE GCD(_, _)
GCD(a, b) == IF b = 0 THEN a ELSE GCD(b, a % b)

LCM(a, b) == (a \div GCD(a, b)) * b

RECURSIVE SumTo(_, _)
SumTo(s, k) == IF k = 0 THEN 0 ELSE s[k] + SumTo(s, k - 1)

\* python's sum(array)
SeqSum(s) == SumTo(s, Len(s))

RECURSIVE GcdTo(_, _)
GcdTo(s, k) == IF k = 0 THEN 0 ELSE GCD(s[k], GcdTo(s, k - 1))

SeqGCD(s) == GcdTo(s, Len(s))

RECURSIVE MaxTo(_, _)
MaxTo(s, k) == IF k = 0 THEN 0 ELSE LET m == MaxTo(s, k - 1) IN IF s[k] > m THEN s[k] ELSE m

SeqMax(s) == MaxTo(s, Len(s))

RECURSIVE ProdTo(_, _)
ProdTo(s, k) == IF k = 0 THEN 1 ELSE s[k] * ProdTo(s, k - 1)

\* The sequence <<F(1), ..., F(k)>>, built entry by entry.
RECURSIVE Build(_, _)
Build(F(_), k) == IF k = 0 THEN <<>> ELSE Append(Build(F, k - 1), F(k))

Zeros(k) == Build(LAMBDA i : 0, k)

\* The array whose entries are all nan, of the shape of nums.
NaN(nums) == [num |-> Zeros(Len(nums)), den |-> <<0>>]

IsNaN(array) == \E i \in 1..Len(array.den) : array.den[i] = 0

\* The denominator of an array as one number.
Den(array) == ProdTo(array.den, Len(array.den))

(***************************************************************************)
(* Module-level functions                                                  *)
(***************************************************************************)
\* Faulty variant of normalize: divides by the largest entry instead of the sum.
normalize_by_max(array) ==
    LET m == SeqMax(array.num)
        g == SeqGCD(array.num)
    IN  IF IsNaN(array) \/ m = 0
        THEN NaN(array.num)
        ELSE [num |-> Build(LAMBDA i : array.num[i] \div g, Len(array.num)),
              den |-> <<m \div g>>]

\* Faulty variant of normalize: keeps six binary digits of every quotient.
normalize_fixed_point(array) ==
    LET s == SeqSum(array.num)
    IN  IF IsNaN(array) \/ s = 0
        THEN NaN(array.num)
        ELSE [num |-> Build(LAMBDA i : (array.num[i] * 64) \div s, Len(array.num)),
              den |-> <<64>>]

\* array / sum(array): entry (num[i]/D) / (sum(num)/D) = num[i] / sum(num),
\* written in lowest terms; a division by a zero sum stores nan.
normalize(array) ==
    LET s == SeqSum(array.num)
        g == SeqGCD(array.num)
    IN  IF IsNaN(array) \/ s = 0
        THEN NaN(array.num)
        ELSE [num |-> Build(LAMBDA i : array.num[i] \div g, Len(array.num)),
              den |-> <<s \div g>>]

uniform_distribution(array_len) ==
    [num |-> Build(LAMBDA i : 1, array_len), den |-> <<array_len>>]

empty_reading == <<1, 0, 1, 0, 0, 1, 0, 0>>

(***************************************************************************)
(* SensorProbability                                                       *)
(***************************************************************************)
\* Faulty variant of set_feature_occurency: uses the node numbers 1..18 as the
\* indices 0..17 (no subtraction of 1), and so boosts the next node.
set_feature_occurency_unshifted(nodes) ==
    LET pdf == [num |-> Build(LAMBDA i : IF (i - 1) \in nodes THEN scale ELSE 1, map_len),
                den |-> <<1>>]
    IN  normalize(pdf)

set_feature_occurency(nodes) ==
    LET pdf == [num |-> Build(LAMBDA i : IF i \in nodes THEN scale ELSE 1, map_len),
                den |-> <<1>>]
    IN  normalize(pdf)

\* The node lists (nodes 1..18) handed to set_feature_occurency, per feature
\* class and non-zero outcome.
node_occur ==
    << << {2, 4, 6, 8, 9, 10, 11, 13, 15, 17} >>,
       << {1, 7, 12, 18}, {1, 7, 12, 18} >>,
       << {1, 3, 5, 7, 12, 14, 16, 18}, {3, 5, 14, 16} >> >>

\* Faulty variant of prob_hallway: the two rows in the other order.
prob_hallway_rows_swapped ==
    << set_feature_occurency(node_occur[1][1]),
       uniform_distribution(map_len) >>

prob_hallway ==
    << uniform_distribution(map_len),
       set_feature_occurency(node_occur[1][1]) >>

prob_inner_corner ==
    << uniform_distribution(map_len),
       set_feature_occurency(node_occur[2][1]),
       set_feature_occurency(node_occur[2][2]) >>

prob_outer_corner ==
    << uniform_distribution(map_len),
       set_feature_occurency(node_occur[3][1]),
       set_feature_occurency(node_occur[3][2]) >>

features_order == <<hallway_features, inner_features, outer_features>>

\* np.vstack of the three tables: 8 rows of map_len entries.
measurements_probability == prob_hallway \o prob_inner_corner \o prob_outer_corner

(***************************************************************************)
(* numpy operations used by update_belief                                  *)
(***************************************************************************)
RECURSIVE RowLcm(_, _)
RowLcm(M, k) == IF k = 0 THEN 1 ELSE LCM(Den(M[k]), RowLcm(M, k - 1))

\* The rows of M over their common denominator: [num |-> rows of numerators,
\* den |-> the common denominator].
OverCommonDen(M) ==
    LET L == RowLcm(M, Len(M))
    IN  [num |-> Build(LAMBDA r : LET f == L \div Den(M[r])
                                  IN  Build(LAMBDA n : M[r].num[n] * f, Len(M[r].num)),
                       Len(M)),
         den |-> L]

\* self.measurements_probability as np.dot reads it.
measurements_table == OverCommonDen(measurements_probability)

RECURSIVE DotTo(_, _, _, _)
DotTo(z, rows, n, k) ==
    IF k = 0 THEN 0 ELSE z[k] * rows[k][n] + DotTo(z, rows, n, k - 1)

\* np.dot(z, M): entry n is the sum over the rows r of z[r] * M[r][n], over
\* the rows' common denominator and reduced.
np_dot(z, T) ==
    LET nums == Build(LAMBDA n : DotTo(z, T.num, n, Len(T.num)), Len(T.num[1]))
        g    == GCD(SeqGCD(nums), T.den)
    IN  [num |-> Build(LAMBDA n : nums[n] \div g, Len(nums)), den |-> <<T.den \div g>>]

\* a * b of two arrays of the same shape, entry by entry.
np_multiply(a, b) ==
    [num |-> Build(LAMBDA n : a.num[n] * b.num[n], Len(a.num)), den |-> a.den \o b.den]

(***************************************************************************)
(* CIC_Probabilities                                                       *)
(***************************************************************************)
\* msg[i] = 1 on np.zeros(size): python indexing, where -size <= i < 0
\* counts from the end and any other i outside 0..size-1 raises IndexError.
InIndexRange(i, size) == -size <= i /\ i < size

\* Faulty variant of OneAt: takes the outcome as a position counted from 1.
OneAt_from_one(i, size) ==
    LET pos == IF i < 0 THEN size + i ELSE i
    IN  Build(LAMBDA j : IF j = pos THEN 1 ELSE 0, size)

OneAt(i, size) ==
    LET pos == IF i < 0 THEN size + i ELSE i
    IN  Build(LAMBDA j : IF j = pos + 1 THEN 1 ELSE 0, size)

\* a.shape == b.shape, both one-dimensional
SameShape(a, b) == Len(a) = Len(b)

process_sensor_reading(reading) ==
    IF ~SameShape(features_order, reading)
    THEN [raised |-> FALSE, z |-> empty_reading,
          printed |-> <<"Wrong shape of reading message recieved.">>]
    ELSE IF ~(\A i \in 1..Len(reading) : reading[i] <= features_order[i])
    THEN [raised |-> FALSE, z |-> empty_reading,
          printed |-> <<"Invalid reading value. An integer flag was different than expected">>]
    ELSE IF \E i \in 1..Len(reading) : ~InIndexRange(reading[i], features_order[i])
    THEN [raised |-> TRUE, z |-> <<>>, printed |-> <<>>]
    ELSE [raised |-> FALSE,
          z |-> OneAt(reading[1], features_order[1])
                \o OneAt(reading[2], features_order[2])
                \o OneAt(reading[3], features_order[3]),
          printed |-> <<>>]

\* Faulty variant of set_belief_on: stores the new vector without the shape check.
set_belief_unchecked(cur, new_belief) == [belief |-> new_belief, printed |-> <<>>]

\* The result of set_belief(new_belief) on the stored belief cur.
set_belief_on(cur, new_belief) ==
    IF SameShape(cur.num, new_belief.num)
    THEN [belief |-> new_belief, printed |-> <<>>]
    ELSE [belief |-> cur, printed |-> <<"Wrong size in belief update">>]

\* np.dot(z, self.measurements_probability) * self.position_belief
prob_x_reading(belief, z) == np_multiply(np_dot(z, measurements_table), belief)

\* The result of update_belief(reading) on the stored belief.
update_belief_on(belief, reading) ==
    LET p == process_sensor_reading(reading)
    IN  IF p.raised
        THEN [raised |-> TRUE, belief |-> belief, z |-> p.z, printed |-> p.printed]
        ELSE LET shape == IF Len(measurements_probability) # Len(p.z)
                          THEN <<"Attempt to process sensor reading of wrong shape">>
                          ELSE <<>>
                 s == set_belief_on(belief, normalize(prob_x_reading(belief, p.z)))
             IN  [raised |-> FALSE, belief |-> s.belief, z |-> p.z,
                  printed |-> p.printed \o shape \o s.printed]

\* The update stays within limit: every product and the sum of the
\* numerators are at most  max(belief) * max(weight) * map_len.
Fits(belief, reading, limit) ==
    LET p == process_sensor_reading(reading)
        w == SeqMax(np_dot(p.z, measurements_table).num)
    IN  IF p.raised \/ w = 0
        THEN TRUE
        ELSE SeqMax(belief.num) <= (limit \div map_len) \div w

(***************************************************************************)
(* Inputs                                                                  *)
(***************************************************************************)
ValidReadings == {<<h, i, o>> : h \in 0..(hallway_features - 1),
                                i \in 0..(inner_features - 1),
                                o \in 0..(outer_features - 1)}

\* Readings of the wrong shape, and three-entry readings with a component
\* outside 0 .. cardinality - 1: equal to the cardinality, above it, negative.
MalformedReadings ==
    { <<0, 0>>, <<0, 0, 0, 0>>,
      <<hallway_features, 0, 0>>, <<0, inner_features, 0>>, <<1, 1, outer_features>>,
      <<hallway_features + 1, 0, 0>>, <<0, inner_features + 1, 1>>,
      <<-1, 0, 0>>, <<0, -1, 0>>, <<0, 0, -outer_features>>, <<0, 0, -outer_features - 1>> }

Readings == ValidReadings \cup MalformedReadings

OneHot(k, len) == [num |-> Build(LAMBDA i : IF i = k THEN 1 ELSE 0, len), den |-> <<1>>]

BeliefInputs ==
    { uniform_distribution(map_len - 1),
      uniform_distribution(map_len + 1),
      OneHot(1, map_len),
      [num |-> Zeros(map_len), den |-> <<1>>],
      [num |-> Build(LAMBDA i : 1, map_len), den |-> <<1>>],
      [num |-> Build(LAMBDA i : IF i <= 2 THEN 1 ELSE 0, map_len), den |-> <<2>>] }

(***************************************************************************)
(* State machine                                                           *)
(***************************************************************************)
NoBelief == [num |-> <<>>, den |-> <<1>>]

Init ==
    /\ position_belief = uniform_distribution(map_len)
    /\ last = [op |-> "__init__", reading |-> <<>>, new_belief |-> NoBelief,
               z |-> <<>>, raised |-> FALSE, before |-> NoBelief,
               printed |-> <<"Prior probabilities set">>]

set_belief(new_belief) ==
    \E s \in {set_belief_on(position_belief, new_belief)} :
        /\ position_belief' = s.belief
        /\ last' = [op |-> "set_belief", reading |-> <<>>, new_belief |-> new_belief,
                    z |-> <<>>, raised |-> FALSE, before |-> position_belief,
                    printed |-> s.printed]

update_belief(reading) ==
    \E u \in {update_belief_on(position_belief, reading)} :
           /\ position_belief' = u.belief
           /\ last' = [op |-> "update_belief", reading |-> reading,
                       new_belief |-> NoBelief, z |-> u.z, raised |-> u.raised,
                       before |-> position_belief, printed |-> u.printed]

SetBeliefStep == \E b \in BeliefInputs : set_belief(b)

UpdateStep ==
    \E r \in Readings : Fits(position_belief, r, MaxSumApi) /\ update_belief(r)

ValidUpdateStep ==
    \E r \in ValidReadings : Fits(position_belief, r, MaxSum) /\ update_belief(r)

Next == SetBeliefStep \/ UpdateStep

Spec == Init /\ [][Next]_vars

\* Only update_belief with valid readings after construction.
NextValid == ValidUpdateStep

SpecValid == Init /\ [][NextValid]_vars

(***************************************************************************)
(* Vocabulary of the properties                                            *)
(***************************************************************************)
\* a/b against c/d for a, c >= 0 and b, d > 0: -1, 0 or 1.  Compared by
\* integer parts and then by the inverted remainders, so that no product of
\* two large numbers is formed.
RECURSIVE RatCmp(_, _, _, _)
RatCmp(a, b, c, d) ==
    LET qa == a \div b
        qc == c \div d
        ra == a % b
        rc == c % d
    IN  IF qa < qc THEN -1
        ELSE IF qa > qc THEN 1
        ELSE IF ra = 0 /\ rc = 0 THEN 0
        ELSE IF ra = 0 THEN -1
        ELSE IF rc = 0 THEN 1
        ELSE RatCmp(d, rc, b, ra)

\* The entries of the array add up to exactly 1.
SumsToOne(array) == ~IsNaN(array) /\ SeqSum(array.num) = Den(array)

\* Both arrays hold the same numbers (neither holds nan).
SameValues(a, b) ==
    /\ ~IsNaN(a) /\ ~IsNaN(b)
    /\ Len(a.num) = Len(b.num)
    /\ \A n \in 1..Len(a.num) : RatCmp(a.num[n], Den(a), b.num[n], Den(b)) = 0

Updated == last.op = "update_belief"

\* A reading update_belief should reject: not one entry per feature class,
\* or an entry outside 0 .. cardinality - 1.
IsMalformed(reading) ==
    \/ Len(reading) # Len(features_order)
    \/ \E i \in 1..Len(reading) : reading[i] < 0 \/ reading[i] > features_order[i] - 1

RangeMessage == "Invalid reading value. An integer flag was different than expected"

(***************************************************************************)
(* C1                                                                      *)
(***************************************************************************)
\* C1: after construction and after every update_belief with a valid reading
\* the entries of the belief are non-negative and add up to exactly 1.
C1_BeliefSumsToOne ==
    /\ Len(position_belief.num) = map_len
    /\ \A n \in 1..map_len : position_belief.num[n] >= 0
    /\ SumsToOne(position_belief)

\* Two updates in a row changed the belief twice.
C1_Witness ==
    /\ Updated
    /\ last.before # uniform_distribution(map_len)
    /\ position_belief # last.before
    /\ position_belief # uniform_distribution(map_len)

(***************************************************************************)
(* C2                                                                      *)
(***************************************************************************)
\* C2: update_belief with a malformed reading (wrong number of entries, an
\* entry above the outcome range, a negative entry) ends without an
\* exception and leaves the stored belief as it was.
C2_MalformedReadingIsHarmless ==
    (Updated /\ IsMalformed(last.reading))
        => (~last.raised /\ position_belief = last.before)

(***************************************************************************)
(* C3                                                                      *)
(***************************************************************************)
\* C3: for a three-entry reading with an entry above cardinality - 1 the
\* encoding reports the range failure: no exception from an out-of-bounds
\* write, and no encoding of the reading.
C3_RangeFailureReported ==
    (/\ Updated
     /\ Len(last.reading) = Len(features_order)
     /\ \E i \in 1..Len(last.reading) : last.reading[i] > features_order[i] - 1)
        => (/\ ~last.raised
            /\ \E m \in 1..Len(last.printed) : last.printed[m] = RangeMessage)

(***************************************************************************)
(* C4                                                                      *)
(***************************************************************************)
\* C4: set_belief stores the new vector if and only if it has map_len
\* entries; otherwise it reports the wrong size and the stored belief is
\* the one from before the call.
C4_SetBeliefChecksLength ==
    last.op = "set_belief" =>
        IF Len(last.new_belief.num) = map_len
        THEN position_belief = last.new_belief /\ last.printed = <<>>
        ELSE /\ position_belief = last.before
             /\ last.printed = <<"Wrong size in belief update">>

\* A vector of map_len - 1 entries was refused.
C4_Witness ==
    /\ last.op = "set_belief"
    /\ Len(last.new_belief.num) = map_len - 1
    /\ position_belief = last.before
    /\ Len(position_belief.num) = map_len

(***************************************************************************)
(* C5                                                                      *)
(***************************************************************************)
\* The row of a feature class's table that a reading entry selects.
SelectedRow(table, outcome) == table[outcome + 1]

\* The naive-Bayes posterior: the three selected rows multiplied entry by
\* entry with the belief, then normalized.
NaiveBayesPosterior(belief, reading) ==
    LET h == SelectedRow(prob_hallway, reading[1])
        i == SelectedRow(prob_inner_corner, reading[2])
        o == SelectedRow(prob_outer_corner, reading[3])
    IN  normalize([num |-> Build(LAMBDA n : h.num[n] * i.num[n] * o.num[n] * belief.num[n],
                                 Len(belief.num)),
                   den |-> h.den \o i.den \o o.den \o belief.den])

\* C5: for a valid reading the posterior update_belief stores is the
\* naive-Bayes posterior of the prior and the three selected rows.
C5_PosteriorIsNaiveBayes ==
    (Updated /\ last.reading \in ValidReadings /\ ~last.raised)
        => SameValues(position_belief, NaiveBayesPosterior(last.before, last.reading))

(***************************************************************************)
(* C6                                                                      *)
(***************************************************************************)
\* Where the block of feature class c starts in the encoded reading.
BlockOffset(c) == SumTo(features_order, c - 1)

\* C6: a valid reading is encoded as a vector of 8 zeros and ones with
\* exactly one 1 per class block, at the reading's offset in the block;
\* <<0, 0, 0>> gives <<1,0, 1,0,0, 1,0,0>>.
C6_OneHotPerBlock ==
    (Updated /\ last.reading \in ValidReadings) =>
        /\ ~last.raised
        /\ last.printed = <<>>
        /\ Len(last.z) = 8
        /\ \A j \in 1..Len(last.z) :
               last.z[j] = IF \E c \in 1..3 : j = BlockOffset(c) + last.reading[c] + 1
                           THEN 1 ELSE 0
        /\ last.reading = <<0, 0, 0>> => last.z = <<1, 0, 1, 0, 0, 1, 0, 0>>

\* The reading <<1, 2, 1>> was encoded.
C6_Witness ==
    /\ Updated
    /\ last.reading = <<1, 2, 1>>
    /\ last.z = <<0, 1, 0, 0, 1, 0, 1, 0>>

(***************************************************************************)
(* C7                                                                      *)
(***************************************************************************)
\* The belief after update_belief(reading) on belief.
After(belief, reading) == update_belief_on(belief, reading).belief

\* The belief after t updates with the same reading from the uniform belief
\* (as many of them as stay within MaxSum).
RECURSIVE Repeated(_, _)
Repeated(reading, t) ==
    IF t = 0 THEN uniform_distribution(map_len)
    ELSE LET b == Repeated(reading, t - 1)
         IN  IF Fits(b, reading, MaxSum) THEN After(b, reading) ELSE b

\* The last update continued a run of one valid reading from the uniform belief.
InRun ==
    /\ Updated
    /\ last.reading \in ValidReadings
    /\ \E t \in 0..MaxRepeat : last.before = Repeated(last.reading, t)

\* The feature classes whose selected row is not the uniform one and lists node n.
FavouringRows(reading, n) ==
    {c \in 1..Len(reading) : reading[c] > 0 /\ n \in node_occur[c][reading[c]]}

Favoured(reading, n) == FavouringRows(reading, n) # {}

\* belief[k] / belief[j] after the last update against before it: -1, 0 or 1.
RatioChange(k, j) ==
    RatCmp(position_belief.num[k], position_belief.num[j],
           last.before.num[k], last.before.num[j])

\* No two nodes changed places in the last update.
OrderKept ==
    \A a, b \in 1..map_len :
        last.before.num[a] < last.before.num[b] => position_belief.num[a] <= position_belief.num[b]

\* C7 as stated: in a run of one reading from the uniform belief, for a
\* node k the reading favours, belief[k]/belief[j] never decreases for any
\* other node j, increases for every j the reading does not favour, and no
\* two nodes change places.
C7_RatioNeverDecreases ==
    InRun =>
        /\ \A k \in 1..map_len : Favoured(last.reading, k) =>
               \A j \in 1..map_len \ {k} :
                   /\ RatioChange(k, j) >= 0
                   /\ ~Favoured(last.reading, j) => RatioChange(k, j) = 1
        /\ OrderKept

\* C7 amended: belief[k]/belief[j] never decreases for a node j that no
\* selected row favours unless it favours k too, increases for every j the
\* reading does not favour, and no two nodes change places.
C7_RatioAmended ==
    InRun =>
        /\ \A k \in 1..map_len : Favoured(last.reading, k) =>
               \A j \in 1..map_len \ {k} :
                   /\ FavouringRows(last.reading, j) \subseteq FavouringRows(last.reading, k)
                          => RatioChange(k, j) >= 0
                   /\ ~Favoured(last.reading, j) => RatioChange(k, j) = 1
        /\ OrderKept

\* The second update of a run with a reading whose two rows favour different
\* nodes: node 2 is favoured, node 1 is favoured by the other row, node 3 by none.
C7_Witness ==
    /\ InRun
    /\ last.reading = <<1, 1, 0>>
    /\ last.before = Repeated(<<1, 1, 0>>, 1)
    /\ last.before # uniform_distribution(map_len)
    /\ position_belief # last.before
    /\ Favoured(last.reading, 2) /\ ~Favoured(last.reading, 3)
    /\ ~(FavouringRows(last.reading, 1) \subseteq FavouringRows(last.reading, 2))

(***************************************************************************)
(* C8                                                                      *)
(***************************************************************************)
\* C8: no nan vector is ever stored as the belief, and when the posterior
\* before normalization sums to zero the stored belief stays as it was.
C8_DegenerateBeliefRefused ==
    /\ ~IsNaN(position_belief)
    /\ (Updated /\ ~last.raised
          /\ SeqSum(prob_x_reading(last.before, last.z).num) = 0)
         => position_belief = last.before

(***************************************************************************)
(* C9                                                                      *)
(***************************************************************************)
\* C9: update_belief with the reading <<0, 0, 0>>, which selects the uniform
\* row of every class, leaves a belief that sums to 1 as it was.
C9_UniformRowsKeepBelief ==
    (Updated /\ last.reading = <<0, 0, 0>> /\ SumsToOne(last.before)) =>
        /\ last.z = empty_reading
        /\ SameValues(position_belief, last.before)

\* <<0, 0, 0>> was applied to a belief that is not the uniform one.
C9_Witness ==
    /\ Updated
    /\ last.reading = <<0, 0, 0>>
    /\ SumsToOne(last.before)
    /\ last.before # uniform_distribution(map_len)
    /\ \E n \in 1..map_len : last.before.num[n] > 1

(***************************************************************************)
(* C10                                                                     *)
(***************************************************************************)
\* The readings in one fixed order, to take each pair of them once.
Rank(reading) == (reading[1] * inner_features + reading[2]) * outer_features + reading[3]

\* C10: from the stored belief, two valid readings applied in either order
\* give the same belief (for the pairs whose updates stay within MaxSum).
C10_UpdatesCommute ==
    \A r1 \in ValidReadings :
        Fits(position_belief, r1, MaxSum) =>
            \A b1 \in {After(position_belief, r1)} :
                \A r2 \in {r \in ValidReadings : Rank(r) > Rank(r1)} :
                    (Fits(position_belief, r2, MaxSum) /\ Fits(b1, r2, MaxSum)) =>
                        \A b2 \in {After(position_belief, r2)} :
                            Fits(b2, r1, MaxSum) => After(b1, r2) = After(b2, r1)

\* The stored belief came from two different readings, and two more
\* different readings can be applied to it in both orders.
C10_Witness ==
    /\ Updated
    /\ last.before # uniform_distribution(map_len)
    /\ position_belief # last.before
    /\ \E r1, r2 \in ValidReadings :
           /\ r1 # r2
           /\ Fits(position_belief, r1, MaxSum)
           /\ Fits(position_belief, r2, MaxSum)
           /\ Fits(After(position_belief, r1), r2, MaxSum)
           /\ Fits(After(position_belief, r2), r1, MaxSum)
           /\ After(position_belief, r1) # After(position_belief, r2)
           /\ After(After(position_belief, r1), r2) # After(position_belief, r1)

====
